---- MODULE Spec2Model ----
(***************************************************************************)
(* Model of the VM lifecycle controller of ayanmali/augustus:              *)
(*   src/src/vm.cpp   class VMManager (the controller)                     *)
(*   src/src/main.cpp the driver (connect with fallback, list, define)     *)
(*   src/kvm.cpp      the earlier revision of the same controller          *)
(* The hypervisor daemon reached through libvirt is the environment: its   *)
(* registry and its replies to the calls the controller issues are         *)
(* modelled after the lifecycle state machine of spec.md, section 4.4.     *)
(***************************************************************************)
EXTENDS Integers, Sequences, FiniteSets, TLC

(* ------------------------------ bounds -------------------------------- *)
\* at most this many domain handles are handed out in one run
MaxHandles == 1
\* at most this many connect calls by a caller that drives the controller freely
MaxOpens == 1
MaxConnects == 3
\* at most this many listVMs calls by a caller that drives the controller freely
MaxLists == 1

(* ----------------------------- value sets ------------------------------ *)
SystemURI == "qemu:///system"
SessionURI == "qemu:///session"
URIs == {SystemURI, SessionURI}

TestVM == "test-vm"
Names == {TestVM}

\* DomainState of spec.md section 3, plus "Undefined" for a name that is not
\* in the daemon's registry.  A defined, never started domain is "Shutoff".
ActiveStates == {"Running", "Blocked", "Paused", "Shutdown", "Crashed"}
RegStates == {"Undefined", "Shutoff"} \cup ActiveStates

\* what a use of a released virDomainPtr can do: behave as if the object
\* were still there, be detected as an invalid object, or fault
UBOutcomes == {"valid", "invalid", "crash"}

\* what virDomainGetName gives for a released virDomainPtr: the name still
\* in the object's memory, NULL (the object is found invalid), or a fault
NameOutcomes == {"name", "null", "crash"}

VARIABLES
  pc,        \* position of the caller: "api" (any caller of the controller) or main.cpp's step
  crashed,   \* the process faulted (undefined behaviour took the crash outcome)
  badbit,    \* std::cout is in a failed state: a null const char* was streamed
             \* into it, and every later insertion is dropped
  conn,      \* VMManager::conn: 0 is nullptr, else an index into opened
  opened,    \* log of virConnectOpen calls: [uri, ok, closes]
  up,        \* which endpoints accept connections
  reg,       \* the daemons' registries: reg[uri][name] \in RegStates
  handles,   \* virDomainPtr objects handed to the caller: [uri, name, live, stale]
  vm,        \* main.cpp's local variable vm: 0 is nullptr
  exitCode,  \* main.cpp's return value, -1 while running
  arrays,    \* domain arrays returned by virConnectListAllDomains, not freed
  domain_type, \* VMManager::domain_type
  calls,     \* the controller operations main.cpp has called, in order
  ctl,       \* two controllers racing at one daemon: ctl[c] = [conn, h, op, ret]
  fn,        \* the latest evaluation of a pure helper: [f, arg, out]
  frame,     \* the locals of a listVMs that is in its loop: domains (the
             \* handles of the array, not handed to the caller), num, i
  last       \* the controller operation the latest step performed, with its
             \* arguments and outcome; NoOp after a step of the environment

vars == <<pc, crashed, badbit, conn, opened, up, reg, handles, vm, exitCode, arrays,
          domain_type, calls, frame, ctl, fn, last>>

\* sent: the operation issued a request on VMManager::conn, and conn is the
\* value of that field then; listed: the domains the daemon held when
\* listVMs asked for them; entries: the lines listVMs printed; freed: the
\* enumerated handles listVMs released; uaf: the operation read the handle
\* after it had released it
NoOp == [op |-> "none", ret |-> "none", h |-> 0, uri |-> "none", name |-> "none",
         pre |-> "none", post |-> "none", others |-> TRUE, hlive |-> FALSE,
         hafter |-> FALSE, num |-> 0, src |-> "none",
         sent |-> FALSE, conn |-> 0, listed |-> {}, entries |-> << >>, freed |-> 0,
         uaf |-> FALSE]

\* no controllers racing, no helper evaluated
NoCtl == [cur |-> 0, kind |-> "none", uri |-> "none", m |-> << >>]
NoFn == [f |-> "none"]

\* no listVMs is in its loop
NoFrame == [uri |-> "none", domains |-> << >>, num |-> 0, i |-> 0, listed |-> {},
            entries |-> << >>]

(* --------------------------- the daemon ------------------------------- *)
\* the endpoint the controller's connection is bound to ("none" for nullptr)
ConnURI == IF conn = 0 THEN "none" ELSE opened[conn].uri

\* handles of a domain that left the registry no longer resolve
MarkStale(hs, u, n) ==
  [i \in DOMAIN hs |->
     IF hs[i].uri = u /\ hs[i].name = n THEN [hs[i] EXCEPT !.stale = TRUE] ELSE hs[i]]

\* the state the daemon holds for the domain a handle refers to
HState(r, hs, h) ==
  IF hs[h].stale THEN "Undefined" ELSE r[hs[h].uri][hs[h].name]

\* every registry entry except (u, n) is the same in r1 and r2
OthersSame(r1, r2, u, n) ==
  \A u2 \in URIs : \A n2 \in Names :
     (u2 # u \/ n2 # n) => r1[u2][n2] = r2[u2][n2]

\* virDomainDefineXML: registers the document's name without starting it;
\* rejected when the name exists or the document is refused (accept = FALSE)
virDomainDefineXML(r, u, n, accept) ==
  IF u \in URIs /\ n \in Names /\ r[u][n] = "Undefined" /\ accept
  THEN [rc |-> 0, reg |-> [r EXCEPT ![u][n] = "Shutoff"]]
  ELSE [rc |-> -1, reg |-> r]

\* virDomainCreate: starts an inactive domain
virDomainCreate(r, st, u, n, accept) ==
  IF st = "Shutoff" /\ accept
  THEN [rc |-> 0, reg |-> [r EXCEPT ![u][n] = "Running"]]
  ELSE [rc |-> -1, reg |-> r]

\* virDomainShutdown: asks the guest of a running domain to shut down
virDomainShutdown(r, st, u, n) ==
  IF st = "Running"
  THEN [rc |-> 0, reg |-> [r EXCEPT ![u][n] = "Shutdown"]]
  ELSE [rc |-> -1, reg |-> r]

\* virDomainDestroy: stops an active domain at once; an error when inactive
virDomainDestroy(r, st, u, n) ==
  IF st \in ActiveStates
  THEN [rc |-> 0, reg |-> [r EXCEPT ![u][n] = "Shutoff"]]
  ELSE [rc |-> -1, reg |-> r]

\* virDomainUndefine: removes the definition; the daemon does not look at
\* the domain's state (spec.md 4.4)
virDomainUndefine(r, st, u, n) ==
  IF st # "Undefined"
  THEN [rc |-> 0, reg |-> [r EXCEPT ![u][n] = "Undefined"]]
  ELSE [rc |-> -1, reg |-> r]

\* reading a wire document (spec.md 6): the position of the first piece tok
\* at or after from, 0 if there is none
IndexOf(doc, toks, from) ==
  IF \E i \in from..Len(doc) : doc[i] \in toks
  THEN CHOOSE i \in from..Len(doc) :
         doc[i] \in toks /\ \A j \in from..(i - 1) : doc[j] \notin toks
  ELSE 0

\* characters that start markup or a reference inside a value
XmlMarkup == {"<", "&"}

\* the content of the first element opened by open: its text up to close,
\* and whether it is text only
ReadElement(doc, open, close) ==
  LET a == IndexOf(doc, {open}, 1)
      b == IF a = 0 THEN 0 ELSE IndexOf(doc, {close}, a + 1)
      text == IF b = 0 THEN << >> ELSE SubSeq(doc, a + 1, b - 1)
  IN  [ok |-> b # 0 /\ \A i \in DOMAIN text : text[i] \notin XmlMarkup, text |-> text]

\* the value of the attribute that open begins: its text up to the next
\* quote, and whether that quote is the document's own
ReadAttr(doc, open) ==
  LET a == IndexOf(doc, {open}, 1)
      b == IF a = 0 THEN 0 ELSE IndexOf(doc, {"'", "'>", "'/>"}, a + 1)
      text == IF b = 0 THEN << >> ELSE SubSeq(doc, a + 1, b - 1)
  IN  [ok |-> b # 0 /\ doc[b] # "'" /\ \A i \in DOMAIN text : text[i] \notin XmlMarkup,
       text |-> text]

\* the daemon parses the document before it defines anything
XmlWellFormed(doc) ==
  /\ ReadElement(doc, "<name>", "</name>").ok
  /\ ReadElement(doc, "<emulator>", "</emulator>").ok
  /\ ReadAttr(doc, "<source file='").ok

\* a size or count the daemon takes: digits, not zero
XmlPositive(text) == text # << >> /\ text[1] \notin {"-", "0"}

\* the documents the daemon can define a domain from
XmlDefinable(doc) ==
  /\ XmlWellFormed(doc)
  /\ ReadElement(doc, "<name>", "</name>").text # << >>
  /\ XmlPositive(ReadElement(doc, "<memory unit='MiB'>", "</memory>").text)
  /\ XmlPositive(ReadElement(doc, "<vcpu>", "</vcpu>").text)

(* ----------------------- src/src/vm.cpp: helpers ----------------------- *)
QEMU == 0
KVM == 1
domain_type_strings == <<"qemu", "kvm">>

\* the virDomainState codes getStateString has a case for
VIR_DOMAIN_RUNNING == 1
VIR_DOMAIN_BLOCKED == 2
VIR_DOMAIN_PAUSED == 3
VIR_DOMAIN_SHUTDOWN == 4
VIR_DOMAIN_SHUTOFF == 5
VIR_DOMAIN_CRASHED == 6

\* the values of getStateString's parameter, an unsigned char
UCHAR_MAX == 255
StateCodes == 0..UCHAR_MAX

\* a getStateString with a case for the power-management suspended code
getStateString_Suspended(state) ==
  CASE state = VIR_DOMAIN_RUNNING -> "Running"
    [] state = VIR_DOMAIN_BLOCKED -> "Blocked"
    [] state = VIR_DOMAIN_PAUSED -> "Paused"
    [] state = VIR_DOMAIN_SHUTDOWN -> "Shutdown"
    [] state = VIR_DOMAIN_SHUTOFF -> "Shutoff"
    [] state = VIR_DOMAIN_CRASHED -> "Crashed"
    [] state = VIR_DOMAIN_CRASHED + 1 -> "Suspended"
    [] OTHER -> "Unknown"

\* VMManager::getStateString
getStateString(state) ==
  CASE state = VIR_DOMAIN_RUNNING -> "Running"
    [] state = VIR_DOMAIN_BLOCKED -> "Blocked"
    [] state = VIR_DOMAIN_PAUSED -> "Paused"
    [] state = VIR_DOMAIN_SHUTDOWN -> "Shutdown"
    [] state = VIR_DOMAIN_SHUTOFF -> "Shutoff"
    [] state = VIR_DOMAIN_CRASHED -> "Crashed"
    [] OTHER -> "Unknown"

\* VMManager::getStateString of src/kvm.cpp
kvm_getStateString(state) ==
  CASE state = VIR_DOMAIN_RUNNING -> "Running"
    [] state = VIR_DOMAIN_BLOCKED -> "Blocked"
    [] state = VIR_DOMAIN_PAUSED -> "Paused"
    [] state = VIR_DOMAIN_SHUTDOWN -> "Shutdown"
    [] state = VIR_DOMAIN_SHUTOFF -> "Shutoff"
    [] state = VIR_DOMAIN_CRASHED -> "Crashed"
    [] OTHER -> "Unknown"

\* the candidate emulator paths, in the order findQEMUPath probes them
paths == <<"/opt/homebrew/bin/qemu-system-x86_64",
           "/usr/local/bin/qemu-system-x86_64",
           "/usr/bin/qemu-system-x86_64">>

\* a file is "missing", a "dir", a regular file without the x bit ("noexec")
\* or an executable regular file ("exec")
FileKinds == {"missing", "dir", "noexec", "exec"}

\* the filesystems createVM is run against
FsCases ==
  { [p \in 1..3 |-> "missing"],
    [p \in 1..3 |-> IF p = 1 THEN "dir" ELSE IF p = 2 THEN "noexec" ELSE "exec"] }

\* what popen/fgets of "which qemu-system-x86_64" delivers: no pipe
\* (pipe = FALSE), no line (got = FALSE), or a line as a sequence of characters
WhichCases ==
  { [pipe |-> TRUE, got |-> FALSE, line |-> << >>],
    [pipe |-> TRUE, got |-> TRUE, line |-> <<"/w/qemu", "\n">>] }

\* a probe that takes anything with the x bit, directories included
RECURSIVE FirstExec_NoRegCheck(_, _)
FirstExec_NoRegCheck(fs, i) ==
  IF i > Len(paths) THEN 0
  ELSE IF fs[i] \in {"dir", "exec"} THEN i
  ELSE FirstExec_NoRegCheck(fs, i + 1)

\* first index at or after i whose file is a regular executable file, 0 if none
RECURSIVE FirstExec(_, _)
FirstExec(fs, i) ==
  IF i > Len(paths) THEN 0
  ELSE IF fs[i] \notin {"missing", "dir"} /\ fs[i] = "exec" THEN i
  ELSE FirstExec(fs, i + 1)

\* char buffer[512] of findQEMUPath
BUFFER_SIZE == 512

\* fgets(buffer, sizeof(buffer), pipe) on a pipe whose first line is line:
\* at most sizeof(buffer) - 1 characters of it
fgets(line) ==
  IF Len(line) < BUFFER_SIZE THEN line ELSE SubSeq(line, 1, BUFFER_SIZE - 1)

\* the run of VMManager::findQEMUPath: ret is what it returns (strings are
\* sequences, "" is << >>), popen whether it ran the system lookup
findQEMUPathRun(fs, which) ==
  IF FirstExec(fs, 1) # 0
  THEN [ret |-> <<paths[FirstExec(fs, 1)]>>, popen |-> FALSE]
  ELSE IF ~which.pipe \/ ~which.got THEN [ret |-> << >>, popen |-> TRUE]
  ELSE LET line == fgets(which.line)
           result == IF line # << >> /\ line[Len(line)] = "\n"
                     THEN SubSeq(line, 1, Len(line) - 1) ELSE line
       IN  [ret |-> IF result # << >> THEN result ELSE << >>, popen |-> TRUE]

\* VMManager::findQEMUPath
findQEMUPath(fs, which) == findQEMUPathRun(fs, which).ret

\* the record of an operation that took a handle
HandleOp(op, src, h, ret, pre, post, r2, hs2) ==
  [op |-> op, ret |-> ret, h |-> h, uri |-> handles[h].uri, name |-> handles[h].name,
   pre |-> pre, post |-> post,
   others |-> OthersSame(reg, r2, handles[h].uri, handles[h].name),
   hlive |-> handles[h].live, hafter |-> hs2[h].live, num |-> 0, src |-> src,
   sent |-> FALSE, conn |-> conn, listed |-> {}, entries |-> << >>, freed |-> 0,
   uaf |-> FALSE]

\* how a daemon call sees the object behind a handle
Mode(h, ub) == IF handles[h].live THEN "valid" ELSE ub

\* the daemon's reply to a call made through handle h
Reply(h, ub, res) == IF Mode(h, ub) = "invalid" THEN [rc |-> -1, reg |-> reg] ELSE res

(* -------------------- src/src/vm.cpp: VMManager ---------------------- *)
\* VMManager::connect
connect(uri) ==
  /\ opened' = Append(opened, [uri |-> uri, ok |-> up[uri], closes |-> 0])
  /\ conn' = IF up[uri] THEN Len(opened) + 1 ELSE 0
  /\ last' = [NoOp EXCEPT !.op = "connect", !.uri = uri,
                          !.ret = IF up[uri] THEN "ok" ELSE "fail"]
  /\ UNCHANGED <<crashed, up, reg, handles, arrays, domain_type, badbit>>

\* a destructor that leaves the connection open
Destructor_NoClose ==
  /\ last' = [NoOp EXCEPT !.op = "~VMManager"]
  /\ UNCHANGED <<crashed, conn, opened, up, reg, handles, arrays, domain_type, badbit>>

\* VMManager::~VMManager
Destructor ==
  /\ opened' = IF conn # 0
               THEN [opened EXCEPT ![conn].closes = @ + 1]
               ELSE opened
  /\ last' = [NoOp EXCEPT !.op = "~VMManager"]
  /\ UNCHANGED <<crashed, conn, up, reg, handles, arrays, domain_type, badbit>>

\* createVM lines 189-196: the handle returned for the daemon's reply res
\* to the define request, nullptr when the reply is an error
DefineReturn(name, u, pre, res) ==
  /\ res.rc = 0 => Len(handles) < MaxHandles
  /\ reg' = res.reg
  /\ handles' = IF res.rc = 0
                THEN Append(handles, [uri |-> u, name |-> name,
                                      live |-> TRUE, stale |-> FALSE])
                ELSE handles
  /\ last' = [NoOp EXCEPT !.op = "createVM", !.uri = u, !.name = name,
                !.ret = IF res.rc = 0 THEN "ok" ELSE "fail",
                !.h = IF res.rc = 0 THEN Len(handles) + 1 ELSE 0,
                !.pre = pre,
                !.post = IF conn = 0 THEN "none" ELSE res.reg[u][name],
                !.others = OthersSame(reg, res.reg, u, name),
                !.hafter = (res.rc = 0), !.sent = TRUE, !.conn = conn]
  /\ UNCHANGED <<crashed, conn, opened, up, arrays, domain_type, badbit>>

\* a createVM that always puts the image under the system-wide directory
DomainXML_SystemDisk(name, memory, vcpus, qemu_path, home) ==
  [type |-> domain_type_strings[domain_type + 1], name |-> name,
   memory |-> memory, vcpus |-> vcpus, emulator |-> qemu_path,
   disk |-> <<"/var/lib/libvirt/images/", name, ".qcow2">>]

\* createVM lines 148-187: the disk path and the document sent to the daemon
DomainXML(name, memory, vcpus, qemu_path, home) ==
  LET disk_path == IF home # "NULL"
                   THEN <<home, "/.local/share/libvirt/images/", name, ".qcow2">>
                   ELSE <<"/var/lib/libvirt/images/", name, ".qcow2">>
  IN  [type |-> domain_type_strings[domain_type + 1], name |-> name,
       memory |-> memory, vcpus |-> vcpus,
       emulator |-> qemu_path, disk |-> disk_path]

\* the characters of the names createVM is given
Chars(name) ==
  CASE name = "" -> << >>
    [] name = "test-vm" -> <<"t", "e", "s", "t", "-", "v", "m">>
    [] name = "a<b" -> <<"a", "<", "b">>
    [] name = "a'b" -> <<"a", "'", "b">>

\* std::to_string(int): the decimal digits, with a sign when negative
DigitChars == <<"0", "1", "2", "3", "4", "5", "6", "7", "8", "9">>
RECURSIVE Digits(_)
Digits(n) ==
  IF n < 10 THEN <<DigitChars[n + 1]>>
  ELSE Digits(n \div 10) \o <<DigitChars[(n % 10) + 1]>>
to_string(n) == IF n < 0 THEN <<"-">> \o Digits(0 - n) ELSE Digits(n)

\* the characters of disk_path: the pieces of the record's disk field, the
\* name spelled out
DiskText(disk) ==
  SubSeq(disk, 1, Len(disk) - 2) \o Chars(disk[Len(disk) - 1]) \o <<disk[Len(disk)]>>

\* createVM lines 160-187: the text of the document, as the sequence of its
\* markup pieces with the inserted values between them, character by
\* character where a value is a caller's string
DomainXMLText(name, memory, vcpus, qemu_path, home) ==
  LET d == DomainXML(name, memory, vcpus, qemu_path, home)
  IN  <<"<domain type='", d.type, "'>", "<name>">> \o Chars(d.name)
      \o <<"</name>", "<memory unit='MiB'>">> \o to_string(d.memory)
      \o <<"</memory>", "<vcpu>">> \o to_string(d.vcpus)
      \o <<"</vcpu>", "<os>", "<type arch='x86_64'>", "hvm", "</type>",
           "<boot dev='hd'/>", "</os>", "<features>", "<acpi/>", "<apic/>",
           "</features>", "<devices>", "<emulator>">> \o d.emulator
      \o <<"</emulator>", "<disk type='file' device='disk'>",
           "<driver name='qemu' type='qcow2'/>", "<source file='">> \o DiskText(d.disk)
      \o <<"'/>", "<target dev='vda' bus='virtio'/>", "</disk>",
           "<interface type='network'>", "<source network='default'/>",
           "<model type='virtio'/>", "</interface>", "<console type='pty'/>",
           "<graphics type='vnc' port='-1'/>", "</devices>", "</domain>">>

\* a createVM that defines and starts the domain in one request
createVM_Started(name, memory, vcpus, fs, which, home, accept) ==
  LET xml == DomainXML(name, memory, vcpus, findQEMUPath(fs, which), home)
      u == ConnURI
      res == virDomainDefineXML(reg, u, xml.name, accept)
      pre == IF conn = 0 THEN "none" ELSE reg[u][name]
  IN  DefineReturn(name, u, pre,
                   IF res.rc = 0
                   THEN [rc |-> 0, reg |-> [res.reg EXCEPT ![u][name] = "Running"]]
                   ELSE res)

\* a createVM that replaces an existing definition of the same name
createVM_Replace(name, memory, vcpus, fs, which, home, accept) ==
  LET xml == DomainXML(name, memory, vcpus, findQEMUPath(fs, which), home)
      u == ConnURI
      pre == IF conn = 0 THEN "none" ELSE reg[u][name]
      cleared == IF conn = 0 THEN reg ELSE [reg EXCEPT ![u][name] = "Undefined"]
  IN  DefineReturn(name, u, pre, virDomainDefineXML(cleared, u, xml.name, accept))

\* a createVM that hands out the existing domain when the name is taken
createVM_Adopt(name, memory, vcpus, fs, which, home, accept) ==
  LET xml == DomainXML(name, memory, vcpus, findQEMUPath(fs, which), home)
      u == ConnURI
      pre == IF conn = 0 THEN "none" ELSE reg[u][name]
      res == virDomainDefineXML(reg, u, xml.name, accept)
  IN  DefineReturn(name, u, pre,
                   IF conn # 0 /\ pre # "Undefined" THEN [rc |-> 0, reg |-> reg] ELSE res)

\* VMManager::createVM
createVM(name, memory, vcpus, fs, which, home, accept) ==
  LET qemu_path == findQEMUPath(fs, which)
      xml == DomainXML(name, memory, vcpus, qemu_path, home)
      u == ConnURI
      pre == IF conn = 0 THEN "none" ELSE reg[u][name]
  IN
  IF qemu_path = << >>
  THEN /\ last' = [NoOp EXCEPT !.op = "createVM", !.ret = "fail", !.uri = u,
                               !.name = name, !.pre = pre, !.post = pre,
                               !.conn = conn]
       /\ UNCHANGED <<crashed, conn, opened, up, reg, handles, arrays, domain_type, badbit>>
  ELSE DefineReturn(name, u, pre, virDomainDefineXML(reg, u, xml.name, accept))

\* a startVM that does not look at the daemon's reply
startVM_Unchecked(h, ub, accept) ==
  LET st == HState(reg, handles, h)
      res == Reply(h, ub, virDomainCreate(reg, st, handles[h].uri, handles[h].name, accept))
  IN
  /\ reg' = res.reg
  /\ last' = HandleOp("startVM", "vm.cpp", h, "ok",
                      st, HState(res.reg, handles, h), res.reg, handles)
  /\ UNCHANGED <<crashed, conn, opened, up, handles, arrays, domain_type, badbit>>

\* VMManager::startVM
startVM(h, ub, accept) ==
  LET st == HState(reg, handles, h)
      res == Reply(h, ub, virDomainCreate(reg, st, handles[h].uri, handles[h].name, accept))
  IN
  IF Mode(h, ub) = "crash"
  THEN /\ crashed' = TRUE
       /\ last' = HandleOp("startVM", "vm.cpp", h, "crash", st, st, reg, handles)
       /\ UNCHANGED <<conn, opened, up, reg, handles, arrays, domain_type, badbit>>
  ELSE /\ reg' = res.reg
       /\ last' = HandleOp("startVM", "vm.cpp", h, IF res.rc < 0 THEN "fail" ELSE "ok",
                           st, HState(res.reg, handles, h), res.reg, handles)
       /\ UNCHANGED <<crashed, conn, opened, up, handles, arrays, domain_type, badbit>>

\* the name virDomainGetName returns for handle h: the domain's name while
\* the handle is unreleased, one of NameOutcomes (name2) after its release
GetName(live, name2) == IF live THEN "name" ELSE name2

\* std::cout after "<<" of the const char* virDomainGetName returned: a null
\* pointer sets badbit, which nothing in the program clears
Insert(bad, name) == bad \/ name = "null"

\* VMManager::stopVM; name2 is the outcome of virDomainGetName on a handle
\* that has been released
stopVM(h, ub, name2) ==
  LET st == HState(reg, handles, h)
      res == Reply(h, ub, virDomainShutdown(reg, st, handles[h].uri, handles[h].name))
      done == Mode(h, ub) # "crash" /\ res.rc = 0
      name == GetName(handles[h].live, name2)
      fault == Mode(h, ub) = "crash" \/ (done /\ name = "crash")
  IN
  /\ reg' = IF Mode(h, ub) = "crash" THEN reg ELSE res.reg
  /\ crashed' = fault
  /\ badbit' = IF done /\ ~fault THEN Insert(badbit, name) ELSE badbit
  /\ last' = HandleOp("stopVM", "vm.cpp", h,
                      IF fault THEN "crash" ELSE IF res.rc < 0 THEN "fail" ELSE "ok",
                      st, HState(reg', handles, h), reg', handles)
  /\ UNCHANGED <<conn, opened, up, handles, arrays, domain_type>>

\* a destroyVM that reports an inactive domain as destroyed
destroyVM_Swallow(h, ub, crash2, name2) ==
  LET st == HState(reg, handles, h)
      res == Reply(h, ub, virDomainDestroy(reg, st, handles[h].uri, handles[h].name))
  IN
  /\ reg' = res.reg
  /\ handles' = [handles EXCEPT ![h].live = FALSE]
  /\ crashed' = FALSE
  /\ badbit' = Insert(badbit, name2)
  /\ last' = HandleOp("destroyVM", "vm.cpp", h, "ok",
                      st, HState(reg', handles', h), reg', handles')
  /\ UNCHANGED <<conn, opened, up, arrays, domain_type>>

\* VMManager::destroyVM; after a successful virDomainDestroy the handle is
\* released (line 240) and then read by virDomainGetName (line 241). The
\* release of a handle that was released before either faults there
\* (crash2), and line 241 is not reached, or goes unnoticed; name2 is the
\* outcome of the read that follows a release that returned
destroyVM(h, ub, crash2, name2) ==
  LET st == HState(reg, handles, h)
      res == Reply(h, ub, virDomainDestroy(reg, st, handles[h].uri, handles[h].name))
      done == Mode(h, ub) # "crash" /\ res.rc = 0
      freeFault == done /\ ~handles[h].live /\ crash2
      read == done /\ ~freeFault
      name == GetName(FALSE, name2)
      fault == Mode(h, ub) = "crash" \/ freeFault \/ (read /\ name = "crash")
  IN
  /\ reg' = IF Mode(h, ub) = "crash" THEN reg ELSE res.reg
  /\ handles' = IF done THEN [handles EXCEPT ![h].live = FALSE] ELSE handles
  /\ crashed' = fault
  /\ badbit' = IF read /\ ~fault THEN Insert(badbit, name) ELSE badbit
  /\ last' = [HandleOp("destroyVM", "vm.cpp", h,
                       IF fault THEN "crash" ELSE IF res.rc < 0 THEN "fail" ELSE "ok",
                       st, HState(reg', handles', h), reg', handles')
                EXCEPT !.uaf = read]
  /\ UNCHANGED <<conn, opened, up, arrays, domain_type>>

\* VMManager::undefineVM
undefineVM(h, ub, name2) ==
  LET st == HState(reg, handles, h)
      res == Reply(h, ub, virDomainUndefine(reg, st, handles[h].uri, handles[h].name))
      done == Mode(h, ub) # "crash" /\ res.rc = 0
      name == GetName(handles[h].live, name2)
      fault == Mode(h, ub) = "crash" \/ (done /\ name = "crash")
  IN
  /\ reg' = IF Mode(h, ub) = "crash" THEN reg ELSE res.reg
  /\ handles' = IF done THEN MarkStale(handles, handles[h].uri, handles[h].name)
                ELSE handles
  /\ crashed' = fault
  /\ badbit' = IF done /\ ~fault THEN Insert(badbit, name) ELSE badbit
  /\ last' = HandleOp("undefineVM", "vm.cpp", h,
                      IF fault THEN "crash" ELSE IF res.rc < 0 THEN "fail" ELSE "ok",
                      st, HState(reg', handles', h), reg', handles')
  /\ UNCHANGED <<conn, opened, up, arrays, domain_type>>

\* VMManager::lookupVM
lookupVM(name) ==
  LET u == ConnURI
      found == conn # 0 /\ reg[u][name] # "Undefined"
      st == IF conn = 0 THEN "none" ELSE reg[u][name]
  IN
  /\ found => Len(handles) < MaxHandles
  /\ handles' = IF found
                THEN Append(handles, [uri |-> u, name |-> name,
                                      live |-> TRUE, stale |-> FALSE])
                ELSE handles
  /\ last' = [NoOp EXCEPT !.op = "lookupVM", !.uri = u, !.name = name,
                !.ret = IF found THEN "ok" ELSE "fail",
                !.h = IF found THEN Len(handles) + 1 ELSE 0,
                !.pre = st, !.post = st, !.hafter = found,
                !.sent = TRUE, !.conn = conn]
  /\ UNCHANGED <<crashed, conn, opened, up, reg, arrays, domain_type, badbit>>

\* the virDomainInfo.state the daemon reports for a domain in state st
StateCode(st) ==
  CASE st = "Running" -> VIR_DOMAIN_RUNNING
    [] st = "Blocked" -> VIR_DOMAIN_BLOCKED
    [] st = "Paused" -> VIR_DOMAIN_PAUSED
    [] st = "Shutdown" -> VIR_DOMAIN_SHUTDOWN
    [] st = "Shutoff" -> VIR_DOMAIN_SHUTOFF
    [] st = "Crashed" -> VIR_DOMAIN_CRASHED

\* the array virConnectListAllDomains fills: the domains of S in the
\* daemon's order
RECURSIVE Enumerate(_)
Enumerate(S) ==
  IF S = {} THEN << >>
  ELSE LET x == CHOOSE y \in S : TRUE IN <<x>> \o Enumerate(S \ {x})

\* what an unwritten info.state may hold: a code for each name getStateString
\* can print
GarbageCodes == 0..(VIR_DOMAIN_CRASHED + 1)

\* the domains the daemon at u holds
Defined(u) == {n \in DOMAIN reg[u] : reg[u][n] # "Undefined"}

\* a listVMs that takes an empty enumeration for a failure
listVMs_enumerate_EmptyIsError ==
  LET u == ConnURI
      names == IF conn = 0 THEN << >> ELSE Enumerate(Defined(u))
      num == IF conn = 0 THEN -1 ELSE Len(names)
  IN
  /\ arrays' = IF num <= 0 THEN arrays ELSE arrays + 1
  /\ frame' = IF num <= 0 THEN NoFrame
              ELSE [uri |-> u,
                    domains |-> [k \in 1..num |->
                                   [uri |-> u, name |-> names[k],
                                    live |-> TRUE, stale |-> FALSE]],
                    num |-> num, i |-> 0, listed |-> Defined(u), entries |-> << >>]
  /\ last' = [NoOp EXCEPT !.op = "listVMs", !.uri = u, !.num = num,
                !.ret = IF num <= 0 THEN "fail" ELSE "loop",
                !.listed = IF conn = 0 THEN {} ELSE Defined(u),
                !.sent = TRUE, !.conn = conn]
  /\ UNCHANGED <<crashed, conn, opened, up, reg, handles, domain_type, badbit>>

\* listVMs lines 288-296: the enumeration. The daemon fills an array with a
\* handle of each domain it holds; the array and its handles stay in the
\* function's frame. Only num < 0 is a failure
listVMs_enumerate ==
  LET u == ConnURI
      names == IF conn = 0 THEN << >> ELSE Enumerate(Defined(u))
      num == IF conn = 0 THEN -1 ELSE Len(names)
  IN
  /\ arrays' = IF num < 0 THEN arrays ELSE arrays + 1
  /\ frame' = IF num < 0 THEN NoFrame
              ELSE [uri |-> u,
                    domains |-> [k \in 1..num |->
                                   [uri |-> u, name |-> names[k],
                                    live |-> TRUE, stale |-> FALSE]],
                    num |-> num, i |-> 0, listed |-> Defined(u), entries |-> << >>]
  /\ last' = [NoOp EXCEPT !.op = "listVMs", !.uri = u, !.num = num,
                !.ret = IF num < 0 THEN "fail" ELSE "loop",
                !.listed = IF conn = 0 THEN {} ELSE Defined(u),
                !.sent = TRUE, !.conn = conn]
  /\ UNCHANGED <<crashed, conn, opened, up, reg, handles, domain_type, badbit>>

\* listVMs lines 297-307: one turn of the loop. virDomainGetInfo's result is
\* not tested: when the query fails info is never written and the line
\* printed shows whatever the variable holds (garbage). The line reaches
\* the output only while std::cout is good
listVMs_entry(garbage) ==
  LET i == frame.i
      st == HState(reg, frame.domains, i + 1)
      rc == IF st = "Undefined" THEN -1 ELSE 0
      info_state == IF rc = 0 THEN StateCode(st) ELSE garbage
  IN
  /\ frame.i < frame.num
  /\ frame' = [frame EXCEPT !.i = i + 1,
                !.domains[i + 1].live = FALSE,
                !.entries = IF badbit THEN @
                            ELSE Append(@, [name |-> frame.domains[i + 1].name,
                                            state |-> getStateString(info_state),
                                            queried |-> (rc = 0)])]
  /\ last' = [NoOp EXCEPT !.op = "listVMs", !.uri = frame.uri, !.num = frame.num,
                !.ret = "loop", !.conn = conn, !.freed = i + 1,
                !.listed = frame.listed, !.entries = frame'.entries]
  /\ UNCHANGED <<crashed, conn, opened, up, reg, handles, arrays, domain_type, badbit>>

\* listVMs lines 307-309: the loop is over, the function returns; the array
\* is not released (line 308 is a comment)
listVMs_return ==
  /\ frame.i = frame.num
  /\ last' = [NoOp EXCEPT !.op = "listVMs", !.uri = frame.uri, !.num = frame.num,
                !.ret = "ok", !.conn = conn, !.freed = frame.i,
                !.listed = frame.listed, !.entries = frame.entries]
  /\ frame' = NoFrame
  /\ UNCHANGED <<crashed, conn, opened, up, reg, handles, arrays, domain_type, badbit>>

\* the values of the unwritten info.state that the next step of the listing
\* can print: any, when that step is a query that fails
GarbageOf ==
  IF /\ frame.uri # "none" /\ frame.i < frame.num
     /\ HState(reg, frame.domains, frame.i + 1) = "Undefined"
  THEN GarbageCodes ELSE {0}

\* VMManager::listVMs, from one of its daemon calls to the next: the
\* enumeration when no call is in progress, then a loop turn per element,
\* then the return. Other actors act at the daemon between two steps
listVMs(garbage) ==
  IF frame.uri = "none" THEN listVMs_enumerate
  ELSE IF frame.i < frame.num THEN listVMs_entry(garbage)
  ELSE listVMs_return

\* VMManager::getVMState: virDomainGetName first (name2 is its outcome on a
\* released handle), then virDomainGetInfo, whose result is tested
getVMState(h, ub, name2) ==
  LET st == HState(reg, handles, h)
      name == GetName(handles[h].live, name2)
      fault == name = "crash" \/ Mode(h, ub) = "crash"
      rc == IF Mode(h, ub) = "invalid" \/ st = "Undefined" THEN -1 ELSE 0
  IN
  /\ crashed' = fault
  /\ badbit' = IF ~fault /\ rc = 0 THEN Insert(badbit, name) ELSE badbit
  /\ last' = HandleOp("getVMState", "vm.cpp", h,
                      IF fault THEN "crash"
                      ELSE IF rc = 0 THEN "ok" ELSE "fail",
                      st, st, reg, handles)
  /\ UNCHANGED <<conn, opened, up, reg, handles, arrays, domain_type>>

\* virDomainFree by the caller that owns the handle (main.cpp line 48);
\* releasing a released handle either faults or goes unnoticed
virDomainFree(h, crash2) ==
  /\ crashed' = (~handles[h].live /\ crash2)
  /\ handles' = [handles EXCEPT ![h].live = FALSE]
  /\ last' = HandleOp("virDomainFree", "main.cpp", h,
                      IF ~handles[h].live /\ crash2 THEN "crash" ELSE "ok",
                      HState(reg, handles, h), HState(reg, handles, h), reg, handles')
  /\ UNCHANGED <<conn, opened, up, reg, arrays, domain_type, badbit>>

(* ------------------------ src/kvm.cpp: VMManager ----------------------- *)
\* VMManager::connect of the earlier revision
kvm_connect(uri) ==
  /\ opened' = Append(opened, [uri |-> uri, ok |-> up[uri], closes |-> 0])
  /\ conn' = IF up[uri] THEN Len(opened) + 1 ELSE 0
  /\ last' = [NoOp EXCEPT !.op = "connect", !.uri = uri, !.src = "kvm.cpp",
                          !.ret = IF up[uri] THEN "ok" ELSE "fail"]
  /\ UNCHANGED <<crashed, up, reg, handles, arrays, domain_type, badbit>>

\* VMManager::~VMManager of the earlier revision
kvm_Destructor ==
  /\ opened' = IF conn # 0
               THEN [opened EXCEPT ![conn].closes = @ + 1]
               ELSE opened
  /\ last' = [NoOp EXCEPT !.op = "~VMManager", !.src = "kvm.cpp"]
  /\ UNCHANGED <<crashed, conn, up, reg, handles, arrays, domain_type, badbit>>

\* createVM lines 76-103 of the earlier revision: the document has the type
\* kvm, a fixed emulator and the image under the system-wide directory
kvm_DomainXML(name, memory, vcpus) ==
  [type |-> "kvm", name |-> name, memory |-> memory, vcpus |-> vcpus,
   emulator |-> <<"/usr/bin/qemu-system-x86_64">>,
   disk |-> <<"/var/lib/libvirt/images/", name, ".qcow2">>]

\* VMManager::createVM of the earlier revision: no emulator search and no
\* early return, the document is always sent
kvm_createVM(name, memory, vcpus, accept) ==
  LET xml == kvm_DomainXML(name, memory, vcpus)
      u == ConnURI
      pre == IF conn = 0 THEN "none" ELSE reg[u][name]
      res == virDomainDefineXML(reg, u, xml.name, accept)
  IN
  /\ res.rc = 0 => Len(handles) < MaxHandles
  /\ reg' = res.reg
  /\ handles' = IF res.rc = 0
                THEN Append(handles, [uri |-> u, name |-> name,
                                      live |-> TRUE, stale |-> FALSE])
                ELSE handles
  /\ last' = [NoOp EXCEPT !.op = "createVM", !.uri = u, !.name = name,
                !.src = "kvm.cpp",
                !.ret = IF res.rc = 0 THEN "ok" ELSE "fail",
                !.h = IF res.rc = 0 THEN Len(handles) + 1 ELSE 0,
                !.pre = pre,
                !.post = IF conn = 0 THEN "none" ELSE res.reg[u][name],
                !.others = OthersSame(reg, res.reg, u, name),
                !.hafter = (res.rc = 0), !.sent = TRUE, !.conn = conn]
  /\ UNCHANGED <<crashed, conn, opened, up, arrays, domain_type, badbit>>

\* VMManager::startVM of the earlier revision
kvm_startVM(h, ub, accept) ==
  LET st == HState(reg, handles, h)
      res == Reply(h, ub, virDomainCreate(reg, st, handles[h].uri, handles[h].name, accept))
  IN
  /\ reg' = IF Mode(h, ub) = "crash" THEN reg ELSE res.reg
  /\ crashed' = (Mode(h, ub) = "crash")
  /\ last' = HandleOp("startVM", "kvm.cpp", h,
                      IF Mode(h, ub) = "crash" THEN "crash"
                      ELSE IF res.rc < 0 THEN "fail" ELSE "ok",
                      st, HState(reg', handles, h), reg', handles)
  /\ UNCHANGED <<conn, opened, up, handles, arrays, domain_type, badbit>>

\* VMManager::stopVM of the earlier revision: virDomainDestroy, not
\* virDomainShutdown
kvm_stopVM(h, ub) ==
  LET st == HState(reg, handles, h)
      res == Reply(h, ub, virDomainDestroy(reg, st, handles[h].uri, handles[h].name))
  IN
  /\ reg' = IF Mode(h, ub) = "crash" THEN reg ELSE res.reg
  /\ crashed' = (Mode(h, ub) = "crash")
  /\ last' = HandleOp("stopVM", "kvm.cpp", h,
                      IF Mode(h, ub) = "crash" THEN "crash"
                      ELSE IF res.rc < 0 THEN "fail" ELSE "ok",
                      st, HState(reg', handles, h), reg', handles)
  /\ UNCHANGED <<conn, opened, up, handles, arrays, domain_type, badbit>>

\* VMManager::destroyVM of the earlier revision: virDomainDestroy and
\* nothing else, the handle is not released
kvm_destroyVM(h, ub) ==
  LET st == HState(reg, handles, h)
      res == Reply(h, ub, virDomainDestroy(reg, st, handles[h].uri, handles[h].name))
  IN
  /\ reg' = IF Mode(h, ub) = "crash" THEN reg ELSE res.reg
  /\ crashed' = (Mode(h, ub) = "crash")
  /\ last' = HandleOp("destroyVM", "kvm.cpp", h,
                      IF Mode(h, ub) = "crash" THEN "crash"
                      ELSE IF res.rc < 0 THEN "fail" ELSE "ok",
                      st, HState(reg', handles, h), reg', handles)
  /\ UNCHANGED <<conn, opened, up, handles, arrays, domain_type, badbit>>

\* VMManager::lookupVM of the earlier revision
kvm_lookupVM(name) ==
  LET u == ConnURI
      found == conn # 0 /\ reg[u][name] # "Undefined"
      st == IF conn = 0 THEN "none" ELSE reg[u][name]
  IN
  /\ found => Len(handles) < MaxHandles
  /\ handles' = IF found
                THEN Append(handles, [uri |-> u, name |-> name,
                                      live |-> TRUE, stale |-> FALSE])
                ELSE handles
  /\ last' = [NoOp EXCEPT !.op = "lookupVM", !.uri = u, !.name = name,
                !.src = "kvm.cpp",
                !.ret = IF found THEN "ok" ELSE "fail",
                !.h = IF found THEN Len(handles) + 1 ELSE 0,
                !.pre = st, !.post = st, !.hafter = found,
                !.sent = TRUE, !.conn = conn]
  /\ UNCHANGED <<crashed, conn, opened, up, reg, arrays, domain_type, badbit>>

\* listVMs lines 187-195 of the earlier revision: the enumeration
kvm_listVMs_enumerate ==
  LET u == ConnURI
      names == IF conn = 0 THEN << >> ELSE Enumerate(Defined(u))
      num == IF conn = 0 THEN -1 ELSE Len(names)
  IN
  /\ arrays' = IF num < 0 THEN arrays ELSE arrays + 1
  /\ frame' = IF num < 0 THEN NoFrame
              ELSE [uri |-> u,
                    domains |-> [k \in 1..num |->
                                   [uri |-> u, name |-> names[k],
                                    live |-> TRUE, stale |-> FALSE]],
                    num |-> num, i |-> 0, listed |-> Defined(u), entries |-> << >>]
  /\ last' = [NoOp EXCEPT !.op = "listVMs", !.uri = u, !.num = num,
                !.src = "kvm.cpp",
                !.ret = IF num < 0 THEN "fail" ELSE "loop",
                !.listed = IF conn = 0 THEN {} ELSE Defined(u),
                !.sent = TRUE, !.conn = conn]
  /\ UNCHANGED <<crashed, conn, opened, up, reg, handles, domain_type, badbit>>

\* listVMs lines 196-206 of the earlier revision: one turn of the loop,
\* virDomainGetInfo's result not tested here either
kvm_listVMs_entry(garbage) ==
  LET i == frame.i
      st == HState(reg, frame.domains, i + 1)
      rc == IF st = "Undefined" THEN -1 ELSE 0
      info_state == IF rc = 0 THEN StateCode(st) ELSE garbage
  IN
  /\ frame.i < frame.num
  /\ frame' = [frame EXCEPT !.i = i + 1,
                !.domains[i + 1].live = FALSE,
                !.entries = IF badbit THEN @
                            ELSE Append(@, [name |-> frame.domains[i + 1].name,
                                            state |-> kvm_getStateString(info_state),
                                            queried |-> (rc = 0)])]
  /\ last' = [NoOp EXCEPT !.op = "listVMs", !.uri = frame.uri, !.num = frame.num,
                !.src = "kvm.cpp",
                !.ret = "loop", !.conn = conn, !.freed = i + 1,
                !.listed = frame.listed, !.entries = frame'.entries]
  /\ UNCHANGED <<crashed, conn, opened, up, reg, handles, arrays, domain_type, badbit>>

\* listVMs lines 206-208 of the earlier revision: free(domains), return
kvm_listVMs_return ==
  /\ frame.i = frame.num
  /\ arrays' = arrays - 1
  /\ last' = [NoOp EXCEPT !.op = "listVMs", !.uri = frame.uri, !.num = frame.num,
                !.src = "kvm.cpp",
                !.ret = "ok", !.conn = conn, !.freed = frame.i,
                !.listed = frame.listed, !.entries = frame.entries]
  /\ frame' = NoFrame
  /\ UNCHANGED <<crashed, conn, opened, up, reg, handles, domain_type, badbit>>

\* VMManager::listVMs of the earlier revision, from one daemon call to the next
kvm_listVMs(garbage) ==
  IF frame.uri = "none" THEN kvm_listVMs_enumerate
  ELSE IF frame.i < frame.num THEN kvm_listVMs_entry(garbage)
  ELSE kvm_listVMs_return

\* VMManager::getVMState of the earlier revision: prints the name and the
\* state held in the handle, asks the daemon nothing and has no failure
\* branch; name2 is what vm->name reads as in a released handle
kvm_getVMState(h, ub, name2) ==
  LET st == HState(reg, handles, h)
      name == GetName(handles[h].live, name2)
      fault == name = "crash" \/ Mode(h, ub) = "crash"
  IN
  /\ crashed' = fault
  /\ badbit' = IF fault THEN badbit ELSE Insert(badbit, name)
  /\ last' = HandleOp("getVMState", "kvm.cpp", h,
                      IF fault THEN "crash" ELSE "ok",
                      st, st, reg, handles)
  /\ UNCHANGED <<conn, opened, up, reg, handles, arrays, domain_type>>

(* --------------------------- the environment --------------------------- *)
\* the daemons this run has a connection or a handle to; the registry of any
\* other daemon is not observed by the run
Watched(u) == \E i \in DOMAIN opened : opened[i].ok /\ opened[i].uri = u

\* the guest or the daemon moves a domain on its own: a requested shutdown
\* completes, a running domain blocks, pauses or crashes, and resumes
GuestStep(u, n) ==
  /\ Watched(u)
  /\ \/ reg[u][n] = "Shutdown" /\ reg' = [reg EXCEPT ![u][n] = "Shutoff"]
     \/ reg[u][n] = "Running"
        /\ \E s \in {"Blocked", "Paused", "Crashed"} : reg' = [reg EXCEPT ![u][n] = s]
     \/ reg[u][n] \in {"Blocked", "Paused"} /\ reg' = [reg EXCEPT ![u][n] = "Running"]
  /\ last' = NoOp
  /\ UNCHANGED <<pc, crashed, conn, opened, up, handles, vm, exitCode, arrays,
                 domain_type, badbit, calls, frame, ctl, fn>>

\* another controller, on a connection of its own, defines, starts, destroys
\* or undefines a domain
OtherController(u, n) ==
  /\ Watched(u)
  /\ \/ /\ reg[u][n] = "Undefined"
        /\ reg' = [reg EXCEPT ![u][n] = "Shutoff"]
        /\ UNCHANGED <<handles, frame>>
     \/ /\ reg[u][n] = "Shutoff"
        /\ reg' = [reg EXCEPT ![u][n] = "Running"]
        /\ UNCHANGED <<handles, frame>>
     \/ /\ reg[u][n] \in ActiveStates
        /\ reg' = [reg EXCEPT ![u][n] = "Shutoff"]
        /\ UNCHANGED <<handles, frame>>
     \/ /\ reg[u][n] = "Shutoff"
        /\ reg' = [reg EXCEPT ![u][n] = "Undefined"]
        /\ handles' = MarkStale(handles, u, n)
        /\ frame' = [frame EXCEPT !.domains = MarkStale(@, u, n)]
  /\ last' = NoOp
  /\ UNCHANGED <<pc, crashed, conn, opened, up, vm, exitCode, arrays, domain_type, badbit,
                 calls, ctl, fn>>

Env == \E u \in URIs, n \in Names : GuestStep(u, n) \/ OtherController(u, n)

(* ------------------- the controller driven by any caller --------------- *)
Memories == {1024}
Vcpus == {2}
Homes == {"NULL", "/home/u"}

Init ==
  /\ pc = "api"
  /\ crashed = FALSE
  /\ badbit = FALSE
  /\ conn = 0
  /\ opened = << >>
  /\ up \in [URIs -> BOOLEAN]
  /\ reg = [u \in URIs |-> [n \in Names |-> "Undefined"]]
  /\ handles = << >>
  /\ vm = 0
  /\ exitCode = -1
  /\ arrays = 0
  /\ domain_type = QEMU
  /\ calls = << >>
  /\ ctl = NoCtl
  /\ fn = NoFn
  /\ frame = NoFrame
  /\ last = NoOp

Live == pc = "api" /\ ~crashed
\* the outcomes a use of handle h can have
UBOf(h) == IF handles[h].live THEN {"valid"} ELSE UBOutcomes
\* the outcomes virDomainGetName on handle h can have in a call whose
\* daemon request sees the handle as ub: the operations read the name only
\* after a request that went through
NameOf(h, ub) == IF handles[h].live \/ ub # "valid" THEN {"name"} ELSE NameOutcomes
\* the outcomes of the release inside destroyVM: a first release returns, a
\* second one may fault
FreeOf(h, ub) == IF handles[h].live \/ ub # "valid" THEN {FALSE} ELSE BOOLEAN
Caller == UNCHANGED <<pc, vm, exitCode, calls, frame, ctl, fn>>

ApiConnect == Live /\ Caller /\ Len(opened) < MaxOpens /\ \E uri \in URIs : connect(uri)
ApiCreateVM ==
  /\ Live /\ Caller
  /\ \E name \in Names, memory \in Memories, vcpus \in Vcpus, fs \in FsCases,
        which \in WhichCases, home \in Homes, accept \in BOOLEAN :
       createVM(name, memory, vcpus, fs, which, home, accept)
ApiLookupVM == Live /\ Caller /\ \E name \in Names : lookupVM(name)
ApiStartVM ==
  /\ Live /\ Caller
  /\ \E h \in DOMAIN handles, accept \in BOOLEAN : \E ub \in UBOf(h) : startVM(h, ub, accept)
ApiStopVM ==
  /\ Live /\ Caller
  /\ \E h \in DOMAIN handles : \E ub \in UBOf(h) : \E name2 \in NameOf(h, ub) : stopVM(h, ub, name2)
ApiDestroyVM ==
  /\ Live /\ Caller
  /\ \E h \in DOMAIN handles : \E ub \in UBOf(h) : \E crash2 \in FreeOf(h, ub) :
       \E name2 \in (IF ub = "valid" /\ ~crash2 THEN NameOutcomes ELSE {"name"}) :
         destroyVM(h, ub, crash2, name2)
ApiUndefineVM ==
  /\ Live /\ Caller
  /\ \E h \in DOMAIN handles : \E ub \in UBOf(h) : \E name2 \in NameOf(h, ub) : undefineVM(h, ub, name2)
ApiGetVMState ==
  /\ Live /\ Caller
  /\ \E h \in DOMAIN handles : \E ub \in UBOf(h) : \E name2 \in NameOf(h, ub) : getVMState(h, ub, name2)
ApiFree ==
  /\ Live /\ Caller
  /\ \E h \in DOMAIN handles, crash2 \in BOOLEAN : virDomainFree(h, crash2)
ApiDestructor ==
  /\ Live /\ Destructor /\ pc' = "destroyed" /\ UNCHANGED <<vm, exitCode, calls, frame, ctl, fn>>
\* the caller is inside listVMs from the enumeration to the return
ApiListVMs ==
  /\ ~crashed
  /\ \/ pc = "api" /\ frame.uri = "none" /\ arrays < MaxLists
     \/ pc = "listVMs"
  /\ \E garbage \in GarbageOf : listVMs(garbage)
  /\ pc' = IF frame'.uri = "none" THEN "api" ELSE "listVMs"
  /\ UNCHANGED <<vm, exitCode, calls, ctl, fn>>

Next ==
  \/ ApiConnect \/ ApiCreateVM \/ ApiLookupVM
  \/ ApiStartVM \/ ApiStopVM \/ ApiDestroyVM \/ ApiUndefineVM
  \/ ApiGetVMState \/ ApiListVMs \/ ApiFree \/ ApiDestructor
  \/ Env

Spec == Init /\ [][Next]_vars

(* ---- the operations that act on domains: all but the listing ---------- *)
\* listVMs changes no domain and no handle of the caller; the claims on the
\* lifecycle of a domain look at the other operations
LifecycleNext ==
  \/ ApiConnect \/ ApiCreateVM \/ ApiLookupVM
  \/ ApiStartVM \/ ApiStopVM \/ ApiDestroyVM \/ ApiUndefineVM
  \/ ApiGetVMState \/ ApiFree \/ ApiDestructor
  \/ Env

SpecLifecycle == Init /\ [][LifecycleNext]_vars

(* ------- controller operations, then the caller's own release --------- *)
\* the caller releases the handle it obtained, once, when it is done with
\* the controller (main.cpp line 48)
OwnerFree ==
  /\ Live /\ UNCHANGED <<vm, exitCode, calls, frame, ctl, fn>>
  /\ \E h \in DOMAIN handles, crash2 \in BOOLEAN : virDomainFree(h, crash2)
  /\ pc' = "released"

OwnerNext ==
  \/ ApiConnect \/ ApiCreateVM \/ ApiLookupVM
  \/ ApiStartVM \/ ApiStopVM \/ ApiDestroyVM \/ ApiUndefineVM
  \/ ApiGetVMState \/ ApiListVMs \/ OwnerFree \/ Env

SpecOwner == Init /\ [][OwnerNext]_vars

(* ----------------- src/kvm.cpp: the earlier revision ------------------- *)
\* the controller of src/kvm.cpp driven by any caller: its own operations
\* and no others
ApiKvmConnect == Live /\ Caller /\ Len(opened) < MaxOpens /\ \E uri \in URIs : kvm_connect(uri)

ApiKvmCreateVM ==
  /\ Live /\ Caller
  /\ \E name \in Names, memory \in Memories, vcpus \in Vcpus, accept \in BOOLEAN :
       kvm_createVM(name, memory, vcpus, accept)

ApiKvmLookupVM == Live /\ Caller /\ \E name \in Names : kvm_lookupVM(name)

ApiKvmStartVM ==
  /\ Live /\ Caller
  /\ \E h \in DOMAIN handles, accept \in BOOLEAN : \E ub \in UBOf(h) : kvm_startVM(h, ub, accept)

ApiKvmStopVM ==
  /\ Live /\ Caller
  /\ \E h \in DOMAIN handles : \E ub \in UBOf(h) : kvm_stopVM(h, ub)

ApiKvmDestroyVM ==
  /\ Live /\ Caller
  /\ \E h \in DOMAIN handles : \E ub \in UBOf(h) : kvm_destroyVM(h, ub)

ApiKvmGetVMState ==
  /\ Live /\ Caller
  /\ \E h \in DOMAIN handles : \E ub \in UBOf(h) : \E name2 \in NameOf(h, ub) : kvm_getVMState(h, ub, name2)

ApiKvmListVMs ==
  /\ ~crashed
  /\ \/ pc = "api" /\ frame.uri = "none"
     \/ pc = "listVMs"
  /\ \E garbage \in GarbageOf : kvm_listVMs(garbage)
  /\ pc' = IF frame'.uri = "none" THEN "api" ELSE "listVMs"
  /\ UNCHANGED <<vm, exitCode, calls, ctl, fn>>

\* the caller releases a handle it holds (kvm.cpp line 252)
ApiKvmFree ==
  /\ Live /\ Caller
  /\ \E h \in DOMAIN handles, crash2 \in BOOLEAN : virDomainFree(h, crash2)

ApiKvmDestructor ==
  /\ Live /\ kvm_Destructor /\ pc' = "destroyed"
  /\ UNCHANGED <<vm, exitCode, calls, frame, ctl, fn>>

NextKvm ==
  \/ ApiKvmConnect \/ ApiKvmCreateVM \/ ApiKvmLookupVM
  \/ ApiKvmStartVM \/ ApiKvmStopVM \/ ApiKvmDestroyVM
  \/ ApiKvmGetVMState \/ ApiKvmListVMs \/ ApiKvmFree \/ ApiKvmDestructor
  \/ Env

SpecKvm == Init /\ [][NextKvm]_vars

(* ------- two controllers, each with its own connection, one daemon ----- *)
\* ctl.m[c] holds controller c's VMManager::conn, its handles, its std::cout
\* state and whether its process has faulted while the other controller runs; ctl.cur is the
\* controller whose fields are in conn, handles and crashed
Controllers == 1..2
RaceKinds == {"define", "destroy"}

RaceInit ==
  /\ pc = "race"
  /\ crashed = FALSE
  /\ badbit = FALSE
  /\ conn = 0
  /\ opened = << >>
  /\ up \in [URIs -> BOOLEAN]
  /\ handles = << >>
  /\ vm = 0
  /\ exitCode = -1
  /\ arrays = 0
  /\ domain_type = QEMU
  /\ calls = << >>
  /\ fn = NoFn
  /\ frame = NoFrame
  /\ last = NoOp
  /\ \E u \in URIs, k \in RaceKinds, s \in RegStates :
       /\ reg = [v \in URIs |-> [n \in Names |-> IF v = u THEN s ELSE "Undefined"]]
       /\ ctl = [cur |-> 1, kind |-> k, uri |-> u,
                 m |-> [c \in Controllers |->
                          [conn |-> 0, handles |-> << >>, crashed |-> FALSE,
                           badbit |-> FALSE, pc |-> "connect", ret |-> "none"]]]

\* the scheduler runs controller c
RaceSwitch(c) ==
  /\ c # ctl.cur
  /\ ctl' = [ctl EXCEPT !.cur = c,
                        !.m[ctl.cur].conn = conn,
                        !.m[ctl.cur].handles = handles,
                        !.m[ctl.cur].crashed = crashed,
                        !.m[ctl.cur].badbit = badbit]
  /\ conn' = ctl.m[c].conn
  /\ handles' = ctl.m[c].handles
  /\ crashed' = ctl.m[c].crashed
  /\ badbit' = ctl.m[c].badbit
  /\ last' = NoOp
  /\ UNCHANGED <<pc, opened, up, reg, vm, exitCode, arrays, domain_type, calls, frame, fn>>

RaceAt(p) == pc = "race" /\ ~crashed /\ ctl.m[ctl.cur].pc = p

RaceCaller == UNCHANGED <<pc, vm, exitCode, calls, frame, fn>>

\* the running controller connects
RaceConnect ==
  /\ RaceAt("connect") /\ RaceCaller
  /\ connect(ctl.uri)
  /\ ctl' = [ctl EXCEPT !.m[ctl.cur].pc =
                IF last'.ret # "ok" THEN "done"
                ELSE IF ctl.kind = "destroy" THEN "lookup" ELSE "op"]

\* the running controller obtains its own handle of the domain
RaceLookupVM ==
  /\ RaceAt("lookup") /\ RaceCaller
  /\ lookupVM(TestVM)
  /\ ctl' = [ctl EXCEPT !.m[ctl.cur].pc = IF last'.ret = "ok" THEN "op" ELSE "done"]

\* the running controller defines the name
RaceCreateVM ==
  /\ RaceAt("op") /\ ctl.kind = "define" /\ RaceCaller
  /\ \E fs \in FsCases, which \in WhichCases, home \in Homes, accept \in BOOLEAN :
       createVM(TestVM, 1024, 2, fs, which, home, accept)
  /\ ctl' = [ctl EXCEPT !.m[ctl.cur].pc = "done", !.m[ctl.cur].ret = last'.ret]

\* the running controller destroys the domain through its handle
RaceDestroyVM ==
  /\ RaceAt("op") /\ ctl.kind = "destroy" /\ RaceCaller
  /\ \E crash2 \in FreeOf(Len(handles), "valid"), name2 \in NameOutcomes :
       destroyVM(Len(handles), "valid", crash2, name2)
  /\ ctl' = [ctl EXCEPT !.m[ctl.cur].pc = "done", !.m[ctl.cur].ret = last'.ret]

RaceNext ==
  \/ \E c \in Controllers : RaceSwitch(c)
  \/ RaceConnect
  \/ RaceLookupVM
  \/ RaceCreateVM
  \/ RaceDestroyVM
  \/ \E n \in Names : pc = "race" /\ GuestStep(ctl.uri, n)

SpecRace == RaceInit /\ [][RaceNext]_vars

(* ---------------- connect called again on one controller -------------- *)
ConnInit ==
  /\ pc = "conn"
  /\ crashed = FALSE
  /\ badbit = FALSE
  /\ conn = 0
  /\ opened = << >>
  /\ up \in [URIs -> BOOLEAN]
  /\ reg = [u \in URIs |-> [n \in Names |-> "Undefined"]]
  /\ handles = << >>
  /\ vm = 0
  /\ exitCode = -1
  /\ arrays = 0
  /\ domain_type = QEMU
  /\ calls = << >>
  /\ ctl = NoCtl
  /\ fn = NoFn
  /\ frame = NoFrame
  /\ last = NoOp

ConnCaller == UNCHANGED <<vm, exitCode, calls, frame, ctl, fn>>

\* one more connect on the same controller
ConnConnect ==
  /\ pc = "conn" /\ Len(opened) < MaxConnects /\ ConnCaller
  /\ \E uri \in URIs : connect(uri)
  /\ UNCHANGED pc

\* the controller goes out of scope
ConnDestructor ==
  /\ pc = "conn" /\ ConnCaller
  /\ Destructor
  /\ pc' = "destroyed"

\* a daemon stops or starts between two connects
ConnDaemon ==
  /\ pc = "conn"
  /\ \E u \in URIs : up' = [up EXCEPT ![u] = ~up[u]]
  /\ UNCHANGED <<pc, crashed, conn, opened, reg, handles, vm, exitCode, arrays,
                 domain_type, badbit, calls, frame, ctl, fn, last>>

ConnNext == ConnConnect \/ ConnDestructor \/ ConnDaemon

SpecConn == ConnInit /\ [][ConnNext]_vars

(* ------------------ listVMs on a daemon with domains ------------------- *)
ListNames == {TestVM, "vm2"}

ListInit ==
  /\ pc = "list"
  /\ crashed = FALSE
  /\ badbit = FALSE
  /\ conn = 0
  /\ opened = << >>
  /\ up \in [URIs -> BOOLEAN]
  /\ \E r \in [ListNames -> {"Undefined", "Shutoff", "Running"}] :
       reg = [u \in URIs |-> r]
  /\ handles = << >>
  /\ vm = 0
  /\ exitCode = -1
  /\ arrays = 0
  /\ domain_type = QEMU
  /\ calls = << >>
  /\ ctl = NoCtl
  /\ fn = NoFn
  /\ frame = NoFrame
  /\ last = NoOp

ListCaller == UNCHANGED <<vm, exitCode, calls, frame, ctl, fn>>

ListConnect ==
  /\ pc = "list" /\ opened = << >> /\ ListCaller
  /\ \E uri \in URIs : connect(uri)
  /\ UNCHANGED pc

\* one listVMs call, from its enumeration to its return
ListListVMs ==
  /\ pc \in {"list", "listVMs"} /\ (pc = "list") = (frame.uri = "none")
  /\ UNCHANGED <<vm, exitCode, calls, ctl, fn>>
  /\ \E garbage \in GarbageOf : listVMs(garbage)
  /\ pc' = IF frame'.uri # "none" THEN "listVMs"
           ELSE "listed"

\* before the call, and between its daemon calls, the domains change under
\* the guests and other controllers
ListEnv ==
  /\ pc \in {"list", "listVMs"}
  /\ \E u \in URIs, n \in ListNames : GuestStep(u, n) \/ OtherController(u, n)

ListNext == ListConnect \/ ListListVMs \/ ListEnv

SpecList == ListInit /\ [][ListNext]_vars

(* ------------- the helpers of VMManager, applied to inputs ------------- *)
\* a constructed controller that has made no daemon call
PureInit ==
  /\ pc = "pure"
  /\ crashed = FALSE
  /\ badbit = FALSE
  /\ conn = 0
  /\ opened = << >>
  /\ up = [u \in URIs |-> FALSE]
  /\ reg = [u \in URIs |-> [n \in Names |-> "Undefined"]]
  /\ handles = << >>
  /\ vm = 0
  /\ exitCode = -1
  /\ arrays = 0
  /\ domain_type \in {QEMU, KVM}
  /\ calls = << >>
  /\ ctl = NoCtl
  /\ fn = NoFn
  /\ frame = NoFrame
  /\ last = NoOp

\* a helper call changes nothing but what it returns
PureFrame ==
  /\ pc = "pure"
  /\ UNCHANGED <<pc, crashed, conn, opened, up, reg, handles, vm, exitCode, arrays,
                 domain_type, badbit, calls, frame, ctl, last>>

PureGetStateString ==
  /\ PureFrame
  /\ \E state \in StateCodes :
       fn' = [f |-> "getStateString", arg |-> state, out |-> getStateString(state)]

PureKvmGetStateString ==
  /\ PureFrame
  /\ \E state \in StateCodes :
       fn' = [f |-> "kvm_getStateString", arg |-> state, out |-> kvm_getStateString(state)]

\* every filesystem over the three candidate paths
PureFsCases == [1..Len(paths) -> FileKinds]

\* a lookup line of n characters and its newline
LineOf(n) == [i \in 1..n |-> "q"] \o <<"\n">>

\* lookup outcomes: no pipe, end of file, an empty line, a path with and
\* without newline, blanks, and lines around the size of the buffer
PureWhichCases ==
  WhichCases \cup
  { [pipe |-> FALSE, got |-> FALSE, line |-> << >>],
    [pipe |-> TRUE, got |-> TRUE, line |-> <<"\n">>],
    [pipe |-> TRUE, got |-> TRUE, line |-> <<"/w/qemu">>],
    [pipe |-> TRUE, got |-> TRUE, line |-> LineOf(BUFFER_SIZE - 2)],
    [pipe |-> TRUE, got |-> TRUE, line |-> LineOf(BUFFER_SIZE - 1)],
    [pipe |-> TRUE, got |-> TRUE, line |-> LineOf(BUFFER_SIZE)] }

PureFindQEMUPath ==
  /\ PureFrame
  /\ \E fs \in PureFsCases, which \in PureWhichCases :
       fn' = [f |-> "findQEMUPath", arg |-> [fs |-> fs, which |-> which],
              out |-> findQEMUPathRun(fs, which)]

PureNext ==
  \/ PureGetStateString
  \/ PureKvmGetStateString
  \/ PureFindQEMUPath

SpecPure == PureInit /\ [][PureNext]_vars

(* --------------- createVM on any parameters of its types --------------- *)
CreateNames == {TestVM, "", "a<b", "a'b"}
CreateMemories == {-1, 0, 1024}
CreateVcpus == {0, 2}
CreateHomes == {"NULL", "", "/home/u"}

CreateInit ==
  /\ pc = "new"
  /\ crashed = FALSE
  /\ badbit = FALSE
  /\ conn = 0
  /\ opened = << >>
  /\ up \in [URIs -> BOOLEAN]
  /\ \E s \in {"Undefined", "Shutoff"} :
       reg = [u \in URIs |-> [n \in CreateNames |-> s]]
  /\ handles = << >>
  /\ vm = 0
  /\ exitCode = -1
  /\ arrays = 0
  /\ domain_type \in {QEMU, KVM}
  /\ calls = << >>
  /\ ctl = NoCtl
  /\ fn = NoFn
  /\ frame = NoFrame
  /\ last = NoOp

CreateConnect ==
  /\ pc = "new" /\ opened = << >>
  /\ \E uri \in URIs : connect(uri)
  /\ UNCHANGED <<pc, vm, exitCode, calls, frame, ctl, fn>>

\* one createVM call; fn keeps its parameters, the emulator path it found
\* and the document it built
CreateCreateVM ==
  /\ pc = "new"
  /\ \E name \in CreateNames, memory \in CreateMemories, vcpus \in CreateVcpus,
        fs \in FsCases, which \in PureWhichCases, home \in CreateHomes,
        accept \in BOOLEAN :
       LET qemu_path == findQEMUPath(fs, which)
           doc == DomainXMLText(name, memory, vcpus, qemu_path, home)
       IN  /\ accept => XmlDefinable(doc)
           /\ createVM(name, memory, vcpus, fs, which, home, accept)
           /\ fn' = [f |-> "createVM",
                     arg |-> [name |-> name, memory |-> memory, vcpus |-> vcpus,
                              fs |-> fs, which |-> which, home |-> home],
                     out |-> [qemu_path |-> qemu_path,
                              disk_path |-> DomainXML(name, memory, vcpus, qemu_path, home).disk,
                              xml |-> doc]]
  /\ pc' = "created"
  /\ UNCHANGED <<vm, exitCode, calls, frame, ctl>>

CreateNext == CreateConnect \/ CreateCreateVM

SpecCreate == CreateInit /\ [][CreateNext]_vars

(* ----------------------- src/src/main.cpp: main ------------------------ *)
MainInit ==
  /\ pc = "connect_system"
  /\ crashed = FALSE
  /\ badbit = FALSE
  /\ conn = 0
  /\ opened = << >>
  /\ up \in [URIs -> BOOLEAN]
  /\ reg = [u \in URIs |-> [n \in Names |-> "Undefined"]]
  /\ handles = << >>
  /\ vm = 0
  /\ exitCode = -1
  /\ arrays = 0
  /\ domain_type = QEMU
  /\ calls = << >>
  /\ ctl = NoCtl
  /\ fn = NoFn
  /\ frame = NoFrame
  /\ last = NoOp

\* a driver that tries the session endpoint whatever the first attempt gave
MainConnectSystem_Both ==
  /\ pc = "connect_system" /\ ~crashed /\ UNCHANGED <<ctl, fn, frame>>
  /\ connect(SystemURI)
  /\ calls' = Append(calls, "connect")
  /\ pc' = "connect_session"
  /\ UNCHANGED <<vm, exitCode>>

\* a driver without the fallback: it gives up when the first attempt fails
MainConnectSystem_NoFallback ==
  /\ pc = "connect_system" /\ ~crashed /\ UNCHANGED <<ctl, fn, frame>>
  /\ connect(SystemURI)
  /\ calls' = Append(calls, "connect")
  /\ pc' = IF last'.ret = "ok" THEN "listVMs" ELSE "exit"
  /\ exitCode' = IF last'.ret = "ok" THEN exitCode ELSE 1
  /\ UNCHANGED vm

\* main.cpp lines 19-20: manager.connect("qemu:///system")
MainConnectSystem ==
  /\ pc = "connect_system" /\ ~crashed /\ UNCHANGED <<ctl, fn, frame>>
  /\ connect(SystemURI)
  /\ calls' = Append(calls, "connect")
  /\ pc' = IF last'.ret = "ok" THEN "listVMs" ELSE "connect_session"
  /\ UNCHANGED <<vm, exitCode>>

\* main.cpp lines 21-28: the session fallback; return 1 when it fails too
MainConnectSession ==
  /\ pc = "connect_session" /\ ~crashed /\ UNCHANGED <<ctl, fn, frame>>
  /\ connect(SessionURI)
  /\ calls' = Append(calls, "connect")
  /\ pc' = IF last'.ret = "ok" THEN "listVMs" ELSE "exit"
  /\ exitCode' = IF last'.ret = "ok" THEN exitCode ELSE 1
  /\ UNCHANGED vm

\* main.cpp line 33: main is inside listVMs until the call returns
MainListVMs ==
  /\ pc = "listVMs" /\ ~crashed /\ UNCHANGED <<ctl, fn>>
  /\ \E garbage \in GarbageOf : listVMs(garbage)
  /\ calls' = IF frame.uri = "none" THEN Append(calls, "listVMs") ELSE calls
  /\ pc' = IF frame'.uri = "none" THEN "createVM" ELSE "listVMs"
  /\ UNCHANGED <<vm, exitCode>>

\* main.cpp lines 36-39: createVM("test-vm", 1024, 2)
MainCreateVM ==
  /\ pc = "createVM" /\ ~crashed /\ UNCHANGED <<ctl, fn, frame>>
  /\ \E fs \in FsCases, which \in WhichCases, home \in Homes, accept \in BOOLEAN :
       createVM(TestVM, 1024, 2, fs, which, home, accept)
  /\ calls' = Append(calls, "createVM")
  /\ vm' = last'.h
  /\ pc' = IF last'.h # 0 THEN "free" ELSE "return"
  /\ UNCHANGED exitCode

\* main.cpp line 48: virDomainFree(vm)
MainFree ==
  /\ pc = "free" /\ ~crashed /\ UNCHANGED <<ctl, fn, frame>>
  /\ \E crash2 \in BOOLEAN : virDomainFree(vm, crash2)
  /\ pc' = "return"
  /\ UNCHANGED <<vm, exitCode, calls>>

\* main.cpp line 51: return 0
MainReturn ==
  /\ pc = "return" /\ ~crashed /\ UNCHANGED <<ctl, fn, frame>>
  /\ exitCode' = 0
  /\ pc' = "exit"
  /\ UNCHANGED <<crashed, conn, opened, up, reg, handles, vm, arrays, domain_type, badbit,
                 calls, last>>

\* leaving main's scope runs manager's destructor
MainExit ==
  /\ pc = "exit" /\ ~crashed /\ UNCHANGED <<ctl, fn, frame>>
  /\ Destructor
  /\ pc' = "done"
  /\ UNCHANGED <<vm, exitCode, calls>>

MainNext ==
  \/ MainConnectSystem \/ MainConnectSession \/ MainListVMs \/ MainCreateVM
  \/ MainFree \/ MainReturn \/ MainExit
  \/ Env

SpecMain == MainInit /\ [][MainNext]_vars

(* ------------------------------ the claims ----------------------------- *)
\* C1: undefine on a handle whose domain is Running fails and leaves the
\* domain defined; no undefine succeeds while the domain is in a state other
\* than Shutoff.
C1_UndefineOnlyWhenShutoff ==
  last.op = "undefineVM" =>
    /\ last.ret = "ok" => last.pre = "Shutoff"
    /\ last.pre = "Running" => last.ret = "fail" /\ last.post = "Running"

\* C2: for a Running domain, destroy followed by undefine on the same handle
\* both succeed: destroy on a valid handle of a Running domain returns success
\* and leaves the handle valid, and undefine on a valid handle of a Shutoff
\* domain returns success and takes the domain out of the registry.
C2_DestroyThenUndefine ==
  /\ (last.op = "destroyVM" /\ last.hlive /\ last.pre = "Running")
        => last.ret = "ok" /\ last.hafter
  /\ (last.op = "undefineVM" /\ last.hlive /\ last.pre = "Shutoff")
        => last.ret = "ok" /\ last.post = "Undefined"

\* C3: start succeeds only from Defined/Shutoff and then the domain is
\* Running; from every other state (Running, Paused, Blocked, Shutdown,
\* Crashed, Undefined) start does not succeed, returns failure on a valid
\* handle, and the domain's state is unchanged.
C3_StartOnlyFromShutoff ==
  last.op = "startVM" =>
    /\ last.ret = "ok" => last.pre = "Shutoff" /\ last.post = "Running"
    /\ last.pre # "Shutoff" =>
         /\ last.ret # "ok"
         /\ last.hlive => last.ret = "fail"
         /\ last.post = last.pre
    /\ last.ret = "fail" => last.post = last.pre /\ last.others
C3_Witness ==
  /\ last.op = "startVM" /\ last.hlive /\ last.pre = "Running"
  /\ last.ret = "fail" /\ reg[last.uri][last.name] = "Running"

\* C4: stop only requests a graceful shutdown: it succeeds only on a Running
\* domain, and when it returns success the domain is Shutdown-pending, never
\* already Shutoff by the call itself.
C4_StopIsGraceful ==
  last.op = "stopVM" =>
    /\ last.ret = "ok" => last.pre = "Running" /\ last.post = "Shutdown"
    /\ last.pre # "Running" => last.ret # "ok" /\ last.post = last.pre

\* C5: a destroy that succeeds has forced an active domain to Shutoff in the
\* same call, and on a valid handle a Running, Paused or Blocked domain is
\* Shutoff when the call ends; destroy on a Shutoff domain is never reported
\* as success (a failure on a valid handle) and leaves it Shutoff and defined.
C5_Destroy ==
  last.op = "destroyVM" =>
    /\ last.ret = "ok" => last.pre \in ActiveStates /\ last.post = "Shutoff"
    /\ (last.hlive /\ last.pre \in {"Running", "Paused", "Blocked"})
          => last.post = "Shutoff" /\ last.ret # "fail"
    /\ last.pre = "Shutoff" =>
         /\ last.ret # "ok"
         /\ last.hlive => last.ret = "fail"
         /\ last.post = "Shutoff"
    /\ last.others
C5_Witness ==
  /\ last.op = "destroyVM" /\ last.hlive /\ last.pre = "Shutoff"
  /\ last.ret = "fail" /\ reg[last.uri][last.name] = "Shutoff"

\* C6: when createVM returns a handle the domain was not registered before,
\* is registered now, and is Defined (inactive), not Running.
C6_DefineDoesNotStart ==
  (last.op = "createVM" /\ last.ret = "ok") =>
    /\ last.pre = "Undefined"
    /\ last.post = "Shutoff"
    /\ reg[last.uri][last.name] = "Shutoff"
    /\ last.h \in DOMAIN handles /\ handles[last.h].live /\ ~handles[last.h].stale
C6_Witness ==
  /\ last.op = "createVM" /\ last.ret = "ok"
  /\ reg[last.uri][last.name] = "Shutoff"

\* C7: createVM of a name that is in the registry returns no handle and
\* changes nothing in the registry; createVM and undefineVM return success
\* only after the whole change (and nothing else), and failure only with the
\* registry as it was.
C7_DefineUndefineAtomic ==
  /\ last.op = "createVM" =>
       /\ last.pre \in RegStates \ {"Undefined"} => last.ret = "fail"
       /\ last.ret = "fail" => last.post = last.pre /\ last.others /\ last.h = 0
       /\ last.ret = "ok" => last.pre = "Undefined" /\ last.post = "Shutoff" /\ last.others
  /\ last.op = "undefineVM" =>
       /\ last.ret = "ok" => last.post = "Undefined" /\ last.others
       /\ last.ret = "fail" => last.post = last.pre /\ last.others
C7_Witness ==
  /\ last.op = "createVM" /\ last.pre = "Running" /\ last.ret = "fail"
  /\ reg[last.uri][last.name] = "Running"

\* C8: the driver attempts the system endpoint first and the session endpoint
\* only after the system attempt failed, attempts nothing after the first
\* success, and the connection it holds is the one that succeeded (the
\* session one when system failed and session succeeded).
C8_FallbackOrder ==
  /\ Len(opened) <= 2
  /\ Len(opened) >= 1 => opened[1].uri = SystemURI
  /\ Len(opened) >= 2 => opened[2].uri = SessionURI /\ ~opened[1].ok
  /\ \A i \in DOMAIN opened : opened[i].ok => i = Len(opened) /\ conn = i
  /\ conn # 0 => conn \in DOMAIN opened /\ opened[conn].ok
C8_Witness ==
  /\ Len(opened) = 2 /\ ~opened[1].ok /\ opened[2].ok
  /\ conn = 2 /\ opened[conn].uri = SessionURI /\ pc = "done"

\* C9: the driver exits with 1 only after both endpoints were attempted, once
\* each, and both failed, and then it has called no domain operation; no
\* endpoint is attempted twice; when an endpoint succeeded the driver goes on
\* to list and define and exits with 0.
C9_ExitCode ==
  /\ exitCode = 1 =>
       /\ Len(opened) = 2 /\ \A i \in DOMAIN opened : ~opened[i].ok
       /\ {opened[i].uri : i \in DOMAIN opened} = URIs
       /\ calls = <<"connect", "connect">>
       /\ handles = << >> /\ arrays = 0
  /\ \A i, j \in DOMAIN opened : i # j => opened[i].uri # opened[j].uri
  /\ exitCode = 0 => \E i \in DOMAIN opened : opened[i].ok
  /\ pc = "done" =>
       /\ exitCode \in {0, 1}
       /\ (\E i \in DOMAIN opened : opened[i].ok)
            => exitCode = 0 /\ calls[Len(calls)] = "createVM" /\ calls[Len(calls) - 1] = "listVMs"
C9_Witness ==
  /\ pc = "done" /\ exitCode = 1
  /\ Len(opened) = 2 /\ ~opened[1].ok /\ ~opened[2].ok

\* C10: in a run of the driver a connection that was opened is closed at most
\* once and, when the run has ended, exactly once; a failed attempt, which
\* opened nothing, is never closed.
C10_CloseOnce ==
  /\ \A i \in DOMAIN opened : opened[i].closes <= (IF opened[i].ok THEN 1 ELSE 0)
  /\ pc = "done" =>
       \A i \in DOMAIN opened : opened[i].closes = (IF opened[i].ok THEN 1 ELSE 0)
C10_Witness ==
  /\ pc = "done" /\ exitCode = 0
  /\ \E i \in DOMAIN opened : opened[i].ok /\ opened[i].closes = 1

(* ------------------------------- C11 ----------------------------------- *)
\* VMManager::conn is an open connection that has not been closed
ConnOpen(c) == c # 0 /\ opened[c].ok /\ opened[c].closes = 0

\* C11: whenever createVM, lookupVM or listVMs issues a request on the
\* connection, the controller holds an open, unreleased connection -- also
\* when it is called before connect or after a failed connect
C11_ConnNeverNull ==
  (last.op \in {"createVM", "lookupVM", "listVMs"} /\ last.sent) => ConnOpen(last.conn)

(* ------------------------------- C12 ----------------------------------- *)
\* the operations that take a domain handle
HandleOps == {"startVM", "stopVM", "destroyVM", "undefineVM", "getVMState"}

\* C12: an operation on a stale handle (a handle the caller has not released
\* whose domain was undefined) returns a failure and changes no domain; it
\* never reports success or a state
C12_StaleHandleFails ==
  (last.op \in HandleOps /\ last.hlive /\ handles[last.h].stale /\ last.pre = "Undefined")
    => /\ last.ret = "fail"
       /\ last.post = "Undefined" /\ last.others

(* ------------------------------- C13 ----------------------------------- *)
\* the result controller c holds for its define or destroy
RaceRet(c) == ctl.m[c].ret

\* C13: of two controllers with their own connections that define, or
\* destroy, the same name concurrently, at most one succeeds and the other
\* returns the daemon's failure; both never report success
C13_RaceOneWinner ==
  ctl.kind \in RaceKinds =>
    /\ ~(RaceRet(1) = "ok" /\ RaceRet(2) = "ok")
    /\ \A c \in Controllers :
         (RaceRet(c) = "ok" /\ ctl.m[3 - c].pc = "done" /\ ctl.m[3 - c].ret # "none")
           => RaceRet(3 - c) = "fail"

\* both controllers asked the daemon to define the name: the first was
\* served, the second met the definition of the first and was refused
C13_Witness ==
  /\ ctl.kind = "define"
  /\ RaceRet(1) = "ok" /\ RaceRet(2) = "fail"
  /\ last.op = "createVM" /\ last.sent /\ last.pre = "Shutoff"
  /\ reg[ctl.uri][TestVM] = "Shutoff"

(* ------------------------------- C14 ----------------------------------- *)
\* the closed set of state names, and the name of each recognized code
DomainState == {"Running", "Blocked", "Paused", "Shutdown", "Shutoff", "Crashed", "Unknown"}
NameOfCode ==
  (VIR_DOMAIN_RUNNING :> "Running") @@ (VIR_DOMAIN_BLOCKED :> "Blocked") @@
  (VIR_DOMAIN_PAUSED :> "Paused") @@ (VIR_DOMAIN_SHUTDOWN :> "Shutdown") @@
  (VIR_DOMAIN_SHUTOFF :> "Shutoff") @@ (VIR_DOMAIN_CRASHED :> "Crashed")

\* C14: getStateString is total over the unsigned char values: the result is
\* one of the seven state names, each of the six recognized codes has its own
\* name and every other code gives Unknown
C14_StateMappingTotal ==
  fn.f \in {"getStateString", "kvm_getStateString"} =>
    /\ fn.arg \in StateCodes
    /\ fn.out \in DomainState
    /\ fn.arg \in DOMAIN NameOfCode => fn.out = NameOfCode[fn.arg]
    /\ fn.arg \notin DOMAIN NameOfCode => fn.out = "Unknown"

\* an unrecognized code next to the recognized ones went through the mapping
C14_Witness ==
  fn.f = "getStateString" /\ fn.arg = VIR_DOMAIN_CRASHED + 1 /\ fn.out = "Unknown"

(* ------------------------------- C15 ----------------------------------- *)
\* candidate i exists, is a regular file and is executable
Qualifies(fs, i) == fs[i] = "exec"

\* C15: the emulator search returns the first candidate, in list order, that
\* exists, is a regular file and is executable, and then does not run the
\* system lookup
C15_FirstQualifying ==
  fn.f = "findQEMUPath" =>
    \A i \in 1..Len(paths) :
      (Qualifies(fn.arg.fs, i) /\ \A j \in 1..(i - 1) : ~Qualifies(fn.arg.fs, j))
        => fn.out.ret = <<paths[i]>> /\ ~fn.out.popen

\* a directory and a file without the x bit come before the executable file
C15_Witness ==
  /\ fn.f = "findQEMUPath"
  /\ fn.arg.fs = <<"dir", "noexec", "exec">>
  /\ fn.arg.which.got
  /\ fn.out.ret = <<paths[3]>> /\ ~fn.out.popen

(* ------------------------------- C16 ----------------------------------- *)
\* the lookup's line without its newline
Trimmed(line) ==
  IF line # << >> /\ line[Len(line)] = "\n" THEN SubSeq(line, 1, Len(line) - 1) ELSE line

\* what the system lookup yielded: nothing when there was no pipe or no line
LookupResult(which) == IF which.pipe /\ which.got THEN Trimmed(which.line) ELSE << >>

\* C16: when no candidate qualifies, createVM's emulator search returns the
\* system lookup's result if it is non-empty after trimming; when the lookup
\* yields nothing or an empty line the search fails, and createVM returns no
\* handle and sends no define request
C16_LookupFallback ==
  (fn.f = "createVM" /\ \A i \in 1..Len(paths) : ~Qualifies(fn.arg.fs, i)) =>
    /\ LookupResult(fn.arg.which) # << >> =>
         fn.out.qemu_path = LookupResult(fn.arg.which)
    /\ LookupResult(fn.arg.which) = << >> =>
         /\ fn.out.qemu_path = << >>
         /\ last.op = "createVM" /\ last.ret = "fail" /\ ~last.sent
         /\ last.post = last.pre /\ last.others /\ handles = << >>

(* ------------------------------- C17 ----------------------------------- *)
\* the parameters of the latest createVM that a descriptor must not have
BadParams ==
  {p \in {"name", "memory", "vcpus", "emulator"} :
     \/ p = "name" /\ fn.arg.name = ""
     \/ p = "memory" /\ fn.arg.memory <= 0
     \/ p = "vcpus" /\ fn.arg.vcpus <= 0
     \/ p = "emulator" /\ fn.out.qemu_path = << >>}

\* C17: createVM with an empty name, memory <= 0, vcpus <= 0 or an empty
\* emulator path fails without a define request reaching the daemon and
\* without a change of the registry
C17_Validation ==
  (fn.f = "createVM" /\ BadParams # {}) =>
    /\ last.op = "createVM" /\ last.ret = "fail" /\ ~last.sent
    /\ last.post = last.pre /\ last.others

(* ------------------------------- C18 ----------------------------------- *)
\* C18: for a valid descriptor the document createVM sends reads back exactly
\* the supplied name, the memory in MiB, the vcpu count and the domain-type
\* tag, and no character of the name closes or opens an element or an
\* attribute of the document
C18_Serialization ==
  (fn.f = "createVM" /\ BadParams = {} /\ last.sent) =>
    LET doc == fn.out.xml
    IN  /\ ReadAttr(doc, "<domain type='").text = <<domain_type_strings[domain_type + 1]>>
        /\ ReadElement(doc, "<name>", "</name>") = [ok |-> TRUE, text |-> Chars(fn.arg.name)]
        /\ ReadElement(doc, "<memory unit='MiB'>", "</memory>")
             = [ok |-> TRUE, text |-> Digits(fn.arg.memory)]
        /\ ReadElement(doc, "<vcpu>", "</vcpu>") = [ok |-> TRUE, text |-> Digits(fn.arg.vcpus)]
        /\ ReadAttr(doc, "<source file='").ok

(* ------------------------------- C20 ----------------------------------- *)
\* the image directories
UserImages == "/.local/share/libvirt/images/"
SystemImages == "/var/lib/libvirt/images/"

\* C20: the disk image path depends on HOME alone: with HOME set it is
\* HOME, the user-scoped image directory, the name and .qcow2; without HOME it
\* is the system-wide image directory, the name and .qcow2; that path is the
\* one in the document
C20_DiskPath ==
  (fn.f = "createVM" /\ last.sent) =>
    LET disk == fn.out.disk_path
    IN  /\ disk[Len(disk) - 1] = fn.arg.name /\ disk[Len(disk)] = ".qcow2"
        /\ fn.arg.home # "NULL" => SubSeq(disk, 1, Len(disk) - 2) = <<fn.arg.home, UserImages>>
        /\ fn.arg.home = "NULL" => SubSeq(disk, 1, Len(disk) - 2) = <<SystemImages>>
        /\ fn.arg.name = TestVM =>
             ReadAttr(fn.out.xml, "<source file='").text = DiskText(disk)

\* a domain was defined with HOME set: its image is under that home
C20_Witness ==
  /\ fn.f = "createVM" /\ last.sent /\ last.ret = "ok"
  /\ fn.arg.home = "/home/u" /\ fn.arg.name = TestVM
  /\ fn.out.disk_path = <<"/home/u", UserImages, TestVM, ".qcow2">>

(* ------------------------------- C19 ----------------------------------- *)
\* C19: listVMs on an open connection never fails because of the number of
\* domains: with none it reports an empty sequence and no error, with n it
\* reports n entries, one for each domain the daemon held when it was asked
C19_ListSnapshot ==
  (last.op = "listVMs" /\ ConnOpen(last.conn)) =>
    /\ last.ret # "fail"
    /\ last.num = Cardinality(last.listed)
    /\ Len(last.entries) <= last.num
    /\ \A i \in DOMAIN last.entries : last.entries[i].name \in last.listed
    /\ last.ret = "ok" =>
         /\ Len(last.entries) = last.num
         /\ \A n \in last.listed :
              Cardinality({i \in DOMAIN last.entries : last.entries[i].name = n}) = 1
         /\ last.listed = {} => last.entries = << >>

\* a listing of a daemon that holds two domains has returned
C19_Witness ==
  /\ last.op = "listVMs" /\ ConnOpen(last.conn) /\ last.ret = "ok"
  /\ last.num = Cardinality(ListNames) /\ Len(last.entries) = Cardinality(ListNames)
  /\ \E i \in DOMAIN last.entries : last.entries[i].state = "Running"

(* ------------------------------- C21 ----------------------------------- *)
\* C21: a listVMs that succeeded has released every handle of the
\* enumeration once and the array itself: nothing it obtained stays
\* unreleased
C21_ListReleasesAll ==
  (last.op = "listVMs" /\ last.ret = "ok") =>
    /\ last.freed = last.num
    /\ arrays = 0

(* ------------------------------- C22 ----------------------------------- *)
\* the connections virConnectOpen returned that nobody has closed
Unclosed == {i \in DOMAIN opened : opened[i].ok /\ opened[i].closes = 0}

\* C22: after any sequence of connect calls on one controller there is at
\* most one open connection, and every open connection is the one the
\* controller holds: no connect loses an earlier connection unclosed
C22_AtMostOneConnection ==
  /\ Cardinality(Unclosed) <= 1
  /\ \A i \in Unclosed : conn = i

(* ------------------------------- C23 ----------------------------------- *)
\* C23: no controller operation reads a handle after releasing it or takes
\* a handle an earlier operation released, and the caller's release of the
\* handle it obtained is that handle's first release
C23_NoUseAfterRelease ==
  /\ ~last.uaf
  /\ (last.op \in HandleOps /\ last.src = "vm.cpp") => last.hlive
  /\ last.op = "virDomainFree" => last.hlive

(* ------------------------------- C24 ----------------------------------- *)
\* C24: every state listVMs prints for an entry comes from a successful
\* info query on that entry, also when another actor undefines the domain
\* between the enumeration and the query
C24_ListOnlyQueried ==
  last.op = "listVMs" => \A k \in DOMAIN last.entries : last.entries[k].queried

============================================================================
